---- MODULE Spec2Model ----
(***************************************************************************)
(* Model of the water-ring game of src/script.js: the world built at      *)
(* DOMContentLoaded, the click listener (generateWaterCurrent), the       *)
(* collisionStart listener with checkWinCondition, and the resize          *)
(* listener.  The physics engine (Matter.js) is the environment: it moves *)
(* non-static rings and reports collision pairs.                          *)
(*                                                                         *)
(* Units.  Positions are kept in half pixels (goalWidth / 2 = 7.5 is not   *)
(* an integer), so a pixel coordinate c is stored as 2 * c.  Forces are    *)
(* kept in millionths of a force unit, angles and sines in thousandths.    *)
(***************************************************************************)
EXTENDS Integers, Sequences, FiniteSets, TLC

VARIABLES gameArea, render, gravity, world, rings, goals,
          messageContainer, startButton, pendingClicks, settledBy

vars == <<gameArea, render, gravity, world, rings, goals,
          messageContainer, startButton, pendingClicks, settledBy>>

(* ---------------------------------------------------------------- bounds *)

\* Clicks the host may deliver between two engine updates.
MaxPendingClicks == 1

(* ----------------------------------------------------- program constants *)

wallThickness == 20
numRings == 5
ringRadius == 20
goalWidth == 15
goalHeight == 60
numGoals == 3
numWalls == 4

\* world.gravity.y = 0.5, in tenths.
gravityY == 5

\* forceMagnitude = 0.05, in thousandths.
forceMagnitude == 50

\* Math.PI / 4 in thousandths of a radian.
QuarterPi == 785

\* messageContainer.textContent on a win; the Japanese text of the source is
\* written here in English, since strings of the module are ASCII.
SuccessMessage == "All qubits stable! Congratulations!"

\* Size (clientWidth, clientHeight) of the container at startup, in pixels, and
\* the sizes a resize may give it.
StartSize == [clientWidth |-> 600, clientHeight |-> 400]
ContainerSizes == { StartSize, [clientWidth |-> 0, clientHeight |-> 0] }

\* Values of Math.random(), in thousandths (Math.random() < 1).
RandomSamples == {0, 500, 999}

(* ------------------------------------------------------------- geometry *)

Pos(x2, y2) == [x |-> x2, y |-> y2]

wallOptions == [isStatic |-> TRUE, render |-> [fillStyle |-> "#4a69bd"]]

ringOptions ==
    [render |-> [fillStyle |-> "rgba(74, 105, 189, 0.7)",
                 strokeStyle |-> "#4a69bd",
                 lineWidth |-> 3],
     label |-> "ring"]

goalOptions ==
    [isStatic |-> TRUE,
     render |-> [fillStyle |-> "#2c3e50",
                 strokeStyle |-> "#4a69bd",
                 lineWidth |-> 2],
     label |-> "goal"]

SuccessStyle == [fillStyle |-> "#4CAF50", strokeStyle |-> "#333", lineWidth |-> 1]

NoForce == [x |-> 0, y |-> 0]

\* Bodies.rectangle / Bodies.circle: a body at (x2, y2) half pixels.
NewBody(x2, y2, label, isStatic, style) ==
    [position |-> Pos(x2, y2), label |-> label, isStatic |-> isStatic,
     render |-> style, force |-> NoForce]

\* The four walls, in the order of the World.add call (bottom, left, right, top).
Walls(w, h) ==
    << NewBody(w, 2 * h + wallThickness, "Rectangle Body", wallOptions.isStatic, wallOptions.render),
       NewBody(-wallThickness, h, "Rectangle Body", wallOptions.isStatic, wallOptions.render),
       NewBody(2 * w + wallThickness, h, "Rectangle Body", wallOptions.isStatic, wallOptions.render),
       NewBody(w, -wallThickness, "Rectangle Body", wallOptions.isStatic, wallOptions.render) >>

\* Variant of RingX: the row of rings starts at the middle (no - floor(numRings/2)).
RingXFromMiddle(w, i) == w + i * 100

\* Ring i (0-based): x = w/2 + (i - floor(numRings/2)) * 50, y = h/2.
RingX(w, i) == w + (i - (numRings \div 2)) * 100
RingY(h) == h
\* Variant of NewRing: the ring is created static, as the walls and goals are.
NewRingStatic(w, h, i) == NewBody(RingX(w, i), RingY(h), ringOptions.label, TRUE, ringOptions.render)

NewRing(w, h, i) == NewBody(RingX(w, i), RingY(h), ringOptions.label, FALSE, ringOptions.render)

\* Variant of GoalY: the margin of 10 pixels is left out.
GoalYNoMargin(h) == 2 * h - goalHeight

\* Goal i (0-based): goalX = (w / (numGoals+1)) * (i+1), goalY = h - goalHeight/2 - 10.
\* w is even in every container size used, so 2 * goalX = (2*w * (i+1)) / (numGoals+1).
GoalX(w, i) == (2 * w * (i + 1)) \div (numGoals + 1)
GoalY(h) == 2 * h - goalHeight - 20
NewGoal(w, h, i) == NewBody(GoalX(w, i), GoalY(h), goalOptions.label, goalOptions.isStatic, goalOptions.render)

\* Body ids in the order the bodies are added to the world.
WallIds == 1 .. numWalls
RingIds == (numWalls + 1) .. (numWalls + numRings)
GoalIds == (numWalls + numRings + 1) .. (numWalls + numRings + numGoals)
BodyIds == 1 .. (numWalls + numRings + numGoals)

RingId(i) == numWalls + 1 + i
GoalId(i) == numWalls + numRings + 1 + i

BuildWorld(w, h) ==
    [b \in BodyIds |->
        IF b \in WallIds THEN Walls(w, h)[b]
        ELSE IF b \in RingIds THEN NewRing(w, h, b - numWalls - 1)
        ELSE NewGoal(w, h, b - numWalls - numRings - 1)]

(* ------------------------------------------------------ force dispatcher *)

\* sin and cos of a small angle d (thousandths of a radian, |d| <= 393),
\* by their Taylor series, in thousandths.
SinPos(d) == d - ((((d * d) \div 1000) * d) \div 6000)
Sin(d) == IF d < 0 THEN -SinPos(-d) ELSE SinPos(d)
Cos(d) == 1000 - ((d * d) \div 2000) + ((((d * d) \div 1000) * ((d * d) \div 1000)) \div 24000)

\* Variant of AngleOffset: the arc is PI/2 wide (PI / 2 for PI / 4).
AngleOffsetWide(u) ==
    IF u < 500 THEN -(((500 - u) * 2 * QuarterPi) \div 1000)
    ELSE ((u - 500) * 2 * QuarterPi) \div 1000

\* forceAngle = -PI/2 + (Math.random() - 0.5) * PI/4;  returned as the offset
\* from -PI/2, in thousandths of a radian.
AngleOffset(u) ==
    IF u < 500 THEN -(((500 - u) * QuarterPi) \div 1000)
    ELSE ((u - 500) * QuarterPi) \div 1000

\* { x: forceMagnitude * cos(forceAngle), y: forceMagnitude * sin(forceAngle) }
\* with cos(-PI/2 + d) = sin(d) and sin(-PI/2 + d) = -cos(d).
ForceVector(u) ==
    [x |-> forceMagnitude * Sin(AngleOffset(u)),
     y |-> -(forceMagnitude * Cos(AngleOffset(u)))]

\* Body.applyForce(body, body.position, force): the force is added to body.force.
applyForce(body, f) ==
    [body EXCEPT !.force = [x |-> body.force.x + f.x, y |-> body.force.y + f.y]]

\* Variant of generateWaterCurrent: the test of ring.isStatic is left out.
generateWaterCurrentAll(w, rs, u) ==
    [b \in DOMAIN w |->
        IF \E k \in 1 .. Len(rs) : rs[k] = b
        THEN applyForce(w[b], ForceVector(u))
        ELSE w[b]]

\* Variant of generateWaterCurrent: the angle is drawn inside the loop, so that
\* rings get vectors of different draws (here: every other ring a second one).
generateWaterCurrentPerRing(w, rs, u) ==
    [b \in DOMAIN w |->
        IF (\E k \in 1 .. Len(rs) : rs[k] = b) /\ ~w[b].isStatic
        THEN applyForce(w[b], ForceVector((u + 499 * (b % 2)) % 1000))
        ELSE w[b]]

\* rings.forEach(ring => { if (!ring.isStatic) Body.applyForce(...) })
generateWaterCurrent(w, rs, u) ==
    [b \in DOMAIN w |->
        IF (\E k \in 1 .. Len(rs) : rs[k] = b) /\ ~w[b].isStatic
        THEN applyForce(w[b], ForceVector(u))
        ELSE w[b]]

(* -------------------------------------------------------- collision judge *)

\* Variant of Contained: the left bound of the span is accepted (>= for >).
ContainedClosed(ringBody, goalBody) ==
    /\ ringBody.position.x >= goalBody.position.x - goalWidth
    /\ ringBody.position.x < goalBody.position.x + goalWidth
    /\ ringBody.position.y > goalBody.position.y - goalHeight

\* Variant of Contained: the span is goalWidth on either side (the / 2 left out).
ContainedFullWidth(ringBody, goalBody) ==
    /\ ringBody.position.x > goalBody.position.x - 2 * goalWidth
    /\ ringBody.position.x < goalBody.position.x + 2 * goalWidth
    /\ ringBody.position.y > goalBody.position.y - goalHeight

\* Variant of Contained: only the vertical test is made.
ContainedNoSpan(ringBody, goalBody) ==
    ringBody.position.y > goalBody.position.y - goalHeight

\* if (ringX > goalLeft && ringX < goalRight && ringY > goalTop), in half pixels.
Contained(ringBody, goalBody) ==
    LET goalLeft == goalBody.position.x - goalWidth
        goalRight == goalBody.position.x + goalWidth
        goalTop == goalBody.position.y - goalHeight
    IN  /\ ringBody.position.x > goalLeft
        /\ ringBody.position.x < goalRight
        /\ ringBody.position.y > goalTop

\* Variant of Classify: only the orientation (A = ring, B = goal) is recognised.
ClassifyOneWay(w, pair) ==
    IF w[pair.bodyA].label = "ring" /\ w[pair.bodyB].label = "goal"
    THEN <<pair.bodyA, pair.bodyB>>
    ELSE <<0, 0>>

\* The ring/goal assignment of a pair: <<ring id, goal id>>, or <<0, 0>> when
\* ringBody and goalBody stay undefined.
Classify(w, pair) ==
    IF w[pair.bodyA].label = "ring" /\ w[pair.bodyB].label = "goal"
    THEN <<pair.bodyA, pair.bodyB>>
    ELSE IF w[pair.bodyA].label = "goal" /\ w[pair.bodyB].label = "ring"
    THEN <<pair.bodyB, pair.bodyA>>
    ELSE <<0, 0>>

\* Variant of Freeze: the settled ring is also given a label of its own.
FreezeRelabel(body) ==
    [body EXCEPT !.isStatic = TRUE, !.render = SuccessStyle, !.label = "settled"]

\* Variant of Freeze: the assignment of render.lineWidth is left out.
FreezeKeepLineWidth(body) ==
    [body EXCEPT !.isStatic = TRUE,
                 !.render.fillStyle = SuccessStyle.fillStyle,
                 !.render.strokeStyle = SuccessStyle.strokeStyle]

\* Body.setStatic(ringBody, true) and the three render assignments.
Freeze(body) == [body EXCEPT !.isStatic = TRUE, !.render = SuccessStyle]

\* Variant of checkWinCondition: rings.some for rings.every.
checkWinConditionSome(st) ==
    IF \E k \in 1 .. Len(st.rings) : st.world[st.rings[k]].isStatic
    THEN [st EXCEPT !.message = SuccessMessage, !.disabled = TRUE,
                    !.winChecks = st.winChecks + 1]
    ELSE [st EXCEPT !.winChecks = st.winChecks + 1]

\* Variant of checkWinCondition: the button is not disabled.
checkWinConditionNoDisable(st) ==
    IF \A k \in 1 .. Len(st.rings) : st.world[st.rings[k]].isStatic
    THEN [st EXCEPT !.message = SuccessMessage, !.winChecks = st.winChecks + 1]
    ELSE [st EXCEPT !.winChecks = st.winChecks + 1]

\* checkWinCondition on game state st; winChecks counts its invocations within
\* one callback.
checkWinCondition(st) ==
    LET allRingsInGoals == \A k \in 1 .. Len(st.rings) : st.world[st.rings[k]].isStatic
    IN  IF allRingsInGoals
        THEN [st EXCEPT !.message = SuccessMessage, !.disabled = TRUE,
                        !.winChecks = st.winChecks + 1]
        ELSE [st EXCEPT !.winChecks = st.winChecks + 1]

\* Variant of HandlePair: the static flag follows the containment test of every
\* ring/goal pair (Body.setStatic(ringBody, contained), without the guard on
\* ringBody.isStatic).
HandlePairRetest(st, pair) ==
    LET rg == Classify(st.world, pair)
    IN  IF rg[1] # 0 /\ rg[2] # 0
        THEN IF Contained(st.world[rg[1]], st.world[rg[2]])
             THEN checkWinCondition(
                     [st EXCEPT !.world[rg[1]] = Freeze(st.world[rg[1]]),
                                !.settledBy[rg[1]] = rg[2]])
             ELSE [st EXCEPT !.world[rg[1]].isStatic = FALSE]
        ELSE st

\* Variant of HandlePair: the guard on ringBody.isStatic is left out.
HandlePairNoGuard(st, pair) ==
    LET rg == Classify(st.world, pair)
    IN  IF rg[1] # 0 /\ rg[2] # 0 /\ Contained(st.world[rg[1]], st.world[rg[2]])
        THEN checkWinCondition(
                [st EXCEPT !.world[rg[1]] = Freeze(st.world[rg[1]]),
                           !.settledBy[rg[1]] = rg[2]])
        ELSE st

\* Variant of HandlePair: a goal that has settled a ring accepts no other.
HandlePairExclusive(st, pair) ==
    LET rg == Classify(st.world, pair)
    IN  IF rg[1] # 0 /\ rg[2] # 0 /\ ~st.world[rg[1]].isStatic
           /\ Contained(st.world[rg[1]], st.world[rg[2]])
           /\ \A q \in DOMAIN st.settledBy : st.settledBy[q] # rg[2]
        THEN checkWinCondition(
                [st EXCEPT !.world[rg[1]] = Freeze(st.world[rg[1]]),
                           !.settledBy[rg[1]] = rg[2]])
        ELSE st

\* The body of pairs.forEach for one pair.
HandlePair(st, pair) ==
    LET rg == Classify(st.world, pair)
        ringBody == rg[1]
        goalBody == rg[2]
    IN  IF ringBody # 0 /\ goalBody # 0 /\ ~st.world[ringBody].isStatic
           /\ Contained(st.world[ringBody], st.world[goalBody])
        THEN checkWinCondition(
                [st EXCEPT !.world[ringBody] = Freeze(st.world[ringBody]),
                           !.settledBy[ringBody] = goalBody])
        ELSE st

\* Variant of HandlePairs: the win evaluator runs with the first pair only; the
\* later pairs of the callback freeze their rings without it.
FreezeOnly(st, pair) ==
    LET rg == Classify(st.world, pair)
    IN  IF rg[1] # 0 /\ rg[2] # 0 /\ ~st.world[rg[1]].isStatic
           /\ Contained(st.world[rg[1]], st.world[rg[2]])
        THEN [st EXCEPT !.world[rg[1]] = Freeze(st.world[rg[1]]),
                        !.settledBy[rg[1]] = rg[2]]
        ELSE st
RECURSIVE FreezeAll(_, _)
FreezeAll(st, pairs) ==
    IF pairs = <<>> THEN st
    ELSE FreezeAll(FreezeOnly(st, Head(pairs)), Tail(pairs))
HandlePairsCheckFirst(st, pairs) ==
    IF pairs = <<>> THEN st
    ELSE FreezeAll(HandlePair(st, Head(pairs)), Tail(pairs))

\* pairs.forEach(...), in order.
RECURSIVE HandlePairs(_, _)
HandlePairs(st, pairs) ==
    IF pairs = <<>> THEN st
    ELSE HandlePairs(HandlePair(st, Head(pairs)), Tail(pairs))


(* ------------------------------------------------------------ the engine *)

\* Collision pairs the engine may report in one callback: one pair with a ring
\* (ring and goal in either order, ring and ring, wall and ring), one pair of
\* two bodies created static (wall and wall, wall and goal, goal and goal), or
\* two pairs in which rings, the same one or two different ones, touch one goal.
Pair(a, b) == [bodyA |-> a, bodyB |-> b]
AllPairs == { Pair(a, b) : a, b \in BodyIds }
SinglePairs ==
    { p \in AllPairs :
        \/ p.bodyA \in RingIds /\ p.bodyB \in GoalIds
        \/ p.bodyA \in GoalIds /\ p.bodyB \in RingIds
        \/ p.bodyA \in RingIds /\ p.bodyB \in RingIds /\ p.bodyA < p.bodyB
        \/ p.bodyA \in WallIds /\ p.bodyB \in RingIds
        \/ p.bodyA = 1 /\ p.bodyB \in {2, GoalId(0)}
        \/ p.bodyA = GoalId(0) /\ p.bodyB = GoalId(1) }
PairLists ==
    { <<p>> : p \in SinglePairs } \cup
    { <<Pair(r[1], g), Pair(r[2], g)>> :
        r \in { q \in RingIds \X RingIds : q[1] <= q[2] }, g \in GoalIds }

\* Positions (half pixels) the simulation may carry ring i (0-based) to, given
\* relative to the goals: inside a goal's span below its top, on the span's
\* left or right boundary, level with the goal's top, and beside a goal.
Reach(w, gs, i) ==
    LET g0 == w[gs[1]].position
        g1 == w[gs[2]].position
        g2 == w[gs[3]].position
    IN  CASE i = 0 -> { Pos(g1.x - 10, g1.y + 20), Pos(g1.x - 200, g1.y + 20) }
          [] i = 1 -> { Pos(g1.x - goalWidth, g1.y + 20), Pos(g0.x + 10, g0.y - 20) }
          [] i = 2 -> { Pos(g1.x, g1.y - goalHeight), Pos(g1.x + 10, g1.y + 40) }
          [] i = 3 -> { Pos(g1.x + goalWidth, g1.y + 20), Pos(g1.x - 10, g1.y - 40) }
          [] OTHER -> { Pos(g2.x, g2.y + 20) }

\* The end of Engine.update: the force of every body is reset.
ClearForces(w) == [b \in DOMAIN w |-> [w[b] EXCEPT !.force = NoForce]]

(* --------------------------------------------------------------- actions *)

\* The page as loaded: the message region is empty and the button enabled.
InitialPage ==
    /\ messageContainer = [textContent |-> ""]
    /\ startButton = [disabled |-> FALSE]

\* State after the DOMContentLoaded listener has run.
InitAt(size) ==
    /\ gameArea = size
    /\ render = [width |-> gameArea.clientWidth, height |-> gameArea.clientHeight]
    /\ gravity = [y |-> gravityY]
    /\ world = BuildWorld(gameArea.clientWidth, gameArea.clientHeight)
    /\ rings = [i \in 1 .. numRings |-> RingId(i - 1)]
    /\ goals = [i \in 1 .. numGoals |-> GoalId(i - 1)]
    /\ InitialPage
    /\ pendingClicks = 0
    /\ settledBy = [b \in RingIds |-> 0]

\* A click on startButton; a disabled button dispatches no click event.
Click(u) ==
    /\ ~startButton.disabled
    /\ pendingClicks < MaxPendingClicks
    /\ world' = generateWaterCurrent(world, rings, u)
    /\ pendingClicks' = pendingClicks + 1
    /\ UNCHANGED <<gameArea, render, gravity, rings, goals,
                   messageContainer, startButton, settledBy>>

\* An engine update without new collisions: non-static ring i moves to p.
EngineUpdate(i, p) ==
    /\ ~world[rings[i]].isStatic
    /\ world' = ClearForces([world EXCEPT ![rings[i]].position = p])
    /\ pendingClicks' = 0
    /\ UNCHANGED <<gameArea, render, gravity, rings, goals,
                   messageContainer, startButton, settledBy>>

\* The game state the collisionStart listener reads and writes.
GameState ==
    [world |-> world, rings |-> rings, message |-> messageContainer.textContent,
     disabled |-> startButton.disabled, settledBy |-> settledBy, winChecks |-> 0]

\* An engine update that emits collisionStart with the given pairs.
CollisionStart(pairs) ==
    LET st == HandlePairs(GameState, pairs)
    IN  /\ world' = ClearForces(st.world)
        /\ messageContainer' = [messageContainer EXCEPT !.textContent = st.message]
        /\ startButton' = [startButton EXCEPT !.disabled = st.disabled]
        /\ settledBy' = st.settledBy
        /\ pendingClicks' = 0
        /\ UNCHANGED <<gameArea, render, gravity, rings, goals>>

\* Variant of Resize: the world is built again for the new size.
ResizeRebuild(size) ==
    /\ gameArea' = size
    /\ render' = [render EXCEPT !.width = size.clientWidth, !.height = size.clientHeight]
    /\ world' = BuildWorld(size.clientWidth, size.clientHeight)
    /\ UNCHANGED <<gravity, rings, goals, messageContainer, startButton,
                   pendingClicks, settledBy>>

\* The window's resize event: the container has the given size.
Resize(size) ==
    /\ gameArea' = size
    /\ render' = [render EXCEPT !.width = size.clientWidth, !.height = size.clientHeight]
    /\ UNCHANGED <<gravity, world, rings, goals, messageContainer, startButton,
                   pendingClicks, settledBy>>

Init == InitAt(StartSize)

Next ==
    \/ \E u \in RandomSamples : Click(u)
    \/ \E i \in 1 .. numRings : \E p \in Reach(world, goals, i - 1) : EngineUpdate(i, p)
    \/ \E pairs \in PairLists : CollisionStart(pairs)
    \/ \E size \in ContainerSizes : Resize(size)

Spec == Init /\ [][Next]_vars

\* The same game in a container of zero size.  The three goals are then one
\* on top of the other, and a callback against the second or third acts as one
\* against the first: the engine's reports are taken with the first goal only.
ZeroSize == [clientWidth |-> 0, clientHeight |-> 0]
InitZero == InitAt(ZeroSize)
ZeroPairLists ==
    { pairs \in PairLists :
        \A k \in 1 .. Len(pairs) :
            {pairs[k].bodyA, pairs[k].bodyB} \cap {GoalId(1), GoalId(2)} = {} }
NextZero ==
    \/ \E u \in RandomSamples : Click(u)
    \/ \E i \in 1 .. numRings : \E p \in Reach(world, goals, i - 1) : EngineUpdate(i, p)
    \/ \E pairs \in ZeroPairLists : CollisionStart(pairs)
    \/ \E size \in ContainerSizes : Resize(size)
SpecZero == InitZero /\ [][NextZero]_vars

\* The force dispatcher over every value of Math.random() to three decimals:
\* one click, then an engine update that moves no ring (it reports a touch of
\* two walls) and resets the forces.
AllRandom == 0 .. 999
NextForce ==
    \/ \E u \in AllRandom : pendingClicks = 0 /\ Click(u)
    \/ CollisionStart(<<Pair(1, 2)>>)
SpecForce == Init /\ [][NextForce]_vars

(* ---------------------------------------------------------------- helpers *)

IsStatic(r) == world[r].isStatic
AllRingsStatic == \A r \in RingIds : IsStatic(r)
NumSettled == Cardinality({ r \in RingIds : IsStatic(r) })

\* The containment rule in the words of the specification, in half pixels:
\* goal centre x -/+ 7.5 and goal centre y - 30, all comparisons strict.
StrictlyInGoal(r, g) ==
    /\ world[g].position.x - 15 < world[r].position.x
    /\ world[r].position.x < world[g].position.x + 15
    /\ world[r].position.y > world[g].position.y - 60

\* Pair k of a callback is made of ring r and goal g, in either order.
IsRingGoalPair(pair, r, g) ==
    \/ pair.bodyA = r /\ pair.bodyB = g
    \/ pair.bodyA = g /\ pair.bodyB = r

(* ------------------------------------------------------------------ C1 *)

\* C1: once a ring's static flag is true it is never false in a later state:
\* no step (click, engine update, collision callback, resize) takes a ring
\* from Settled back to Moving.
C1_OneWay == [][\A r \in RingIds : IsStatic(r) => world'[r].isStatic]_vars

\* A ring is settled and, after that, a click has pushed a ring still moving.
C1_Witness ==
    \E r, q \in RingIds : IsStatic(r) /\ ~IsStatic(q) /\ world[q].force # NoForce

(* ------------------------------------------------------------------ C2 *)

\* C2: a ring changes from Moving to Settled only in a collision-start callback
\* that carries a pair of that ring and a goal, and only if at that moment the
\* ring's x lies strictly inside the goal's span and its y is strictly past the
\* goal's top.
C2_SettleOnlyInGoal ==
    [][\A r \in RingIds :
          (~IsStatic(r) /\ world'[r].isStatic) =>
              \E pairs \in PairLists :
                  /\ CollisionStart(pairs)
                  /\ \E k \in 1 .. Len(pairs) : \E g \in GoalIds :
                         IsRingGoalPair(pairs[k], r, g) /\ StrictlyInGoal(r, g)]_vars

\* A ring is settled while other rings rest, still moving, on the left boundary
\* of the span and level with the goal's top.
C2_Witness ==
    /\ \E r \in RingIds : IsStatic(r)
    /\ \E q \in RingIds, g \in GoalIds :
          ~IsStatic(q) /\ world[q].position.x = world[g].position.x - 15
    /\ \E q \in RingIds, g \in GoalIds :
          ~IsStatic(q) /\ world[q].position.x = world[g].position.x
                       /\ world[q].position.y = world[g].position.y - 60

(* ------------------------------------------------------------------ C3 *)

Won == messageContainer.textContent = SuccessMessage /\ startButton.disabled

\* C3: between events the game is Won (message set, control disabled) exactly
\* when all 5 rings are static; otherwise the message is empty and the control
\* enabled.
C3_WonIffAllStatic ==
    /\ Won <=> AllRingsStatic
    /\ ~AllRingsStatic => (messageContainer.textContent = "" /\ ~startButton.disabled)

\* All 5 rings are settled.
C3_Witness == NumSettled = 5 /\ Won

(* ------------------------------------------------------------------ C4 *)

\* C4: Won is terminal.  Once the success message is set, the control is and
\* stays disabled, the message stays set, no step is a force dispatch, and no
\* step changes a ring's static flag or the force on a ring.
C4_WonTerminal ==
    [][messageContainer.textContent = SuccessMessage =>
          /\ startButton.disabled /\ startButton'.disabled
          /\ messageContainer'.textContent = SuccessMessage
          /\ pendingClicks' = pendingClicks
          /\ \A r \in RingIds :
                /\ world'[r].isStatic = world[r].isStatic
                /\ world'[r].force = world[r].force]_vars

\* The game is Won and a resize has been handled.
C4_Witness == Won /\ render.width # StartSize.clientWidth

(* ------------------------------------------------------------------ C5 *)

\* C5: a force dispatch adds one non-zero force to every ring that is
\* non-static at the call, changing nothing else of it, and leaves every
\* static ring (position, static flag, style, force) as it was.
C5_ForceOnlyOnMoving ==
    [][pendingClicks' = pendingClicks + 1 =>
          \E f \in { ForceVector(u) : u \in RandomSamples } :
              /\ f # NoForce
              /\ \A r \in RingIds :
                    IF IsStatic(r)
                    THEN world'[r] = world[r]
                    ELSE world'[r] =
                           [world[r] EXCEPT !.force = [x |-> world[r].force.x + f.x,
                                                      y |-> world[r].force.y + f.y]]]_vars

\* 3 of the 5 rings are settled and carry no force; the 2 others carry one.
C5_Witness ==
    /\ NumSettled = 3
    /\ \A r \in RingIds : IsStatic(r) <=> world[r].force = NoForce

(* ------------------------------------------------------------------ C6 *)

\* The horizontal part of the containment rule fails for ring r and goal g.
OutsideSpan(r, g) ==
    \/ world[r].position.x <= world[g].position.x - 15
    \/ world[r].position.x >= world[g].position.x + 15

\* C6: when a callback returns, every non-static ring that one of its pairs
\* put against a goal that contains it is static, and every non-static ring
\* put only against a goal whose span it is outside of is still non-static.
C6_ContainedSettles ==
    \A pairs \in PairLists :
        LET st == HandlePairs(GameState, pairs)
        IN  \A k \in 1 .. Len(pairs) : \A r \in RingIds : \A g \in GoalIds :
                (IsRingGoalPair(pairs[k], r, g) /\ ~IsStatic(r)) =>
                    /\ StrictlyInGoal(r, g) => st.world[r].isStatic
                    /\ (OutsideSpan(r, g) /\ \A j \in 1 .. Len(pairs) :
                                               IsRingGoalPair(pairs[j], r, g))
                          => ~st.world[r].isStatic

\* The instance of the specification: a ring is settled at x = 295 by the goal
\* centred at x = 300, while a ring past the goal's top but outside its span
\* is still moving.
C6_Witness ==
    /\ \E r \in RingIds :
          /\ IsStatic(r) /\ world[r].position.x = 2 * 295
          /\ settledBy[r] = GoalId(1) /\ world[GoalId(1)].position.x = 2 * 300
    /\ \E q \in RingIds :
          /\ ~IsStatic(q) /\ OutsideSpan(q, GoalId(1))
          /\ world[q].position.y > world[GoalId(1)].position.y - 60

(* ------------------------------------------------------------------ C7 *)

\* The ring positions, the goals' x and gravity of the 600 x 400 layout.
C7_RingsAndGoalX ==
    /\ Init => \A i \in 0 .. 4 :
                  world[RingId(i)].position = Pos(2 * (300 + (i - 2) * 50), 2 * 200)
    /\ \A i \in 0 .. 2 : world[GoalId(i)].position.x = 2 * 150 * (i + 1)
    /\ 10 * gravity.y = 5 * 10

\* C7 as stated: for a 600 x 400 container ring i starts at x = 300 + (i-2)*50,
\* y = 200, the goals are at x = 150, 300, 450 and y = 370 (to the pixel), and
\* gravity.y = 0.5.
C7_Original ==
    /\ C7_RingsAndGoalX
    /\ \A i \in 0 .. 2 :
          /\ world[GoalId(i)].position.y >= 2 * 369
          /\ world[GoalId(i)].position.y <= 2 * 371

\* C7 (amended): as stated, but the goals are at y = 360 (400 - 60/2 - 10).
C7_StartupLayout ==
    /\ C7_RingsAndGoalX
    /\ \A i \in 0 .. 2 : world[GoalId(i)].position.y = 2 * 360

\* The state right after construction in the 600 x 400 container.
C7_Witness ==
    /\ gameArea = [clientWidth |-> 600, clientHeight |-> 400]
    /\ \A r \in RingIds : ~IsStatic(r) /\ world[r].position.y = 2 * 200
    /\ pendingClicks = 0

(* ------------------------------------------------------------------ C8 *)

\* C8: from any state, a callback with the pair (bodyA = ring, bodyB = goal)
\* and one with (bodyA = goal, bodyB = ring) end in the same game state.
C8_OrientationAgnostic ==
    \A r \in RingIds : \A g \in GoalIds :
        HandlePairs(GameState, <<Pair(r, g)>>) = HandlePairs(GameState, <<Pair(g, r)>>)

\* A ring has been settled and another one, still moving, is contained in a
\* goal, so that a callback with either pair changes the state.
C8_Witness ==
    /\ \E q \in RingIds : IsStatic(q)
    /\ \E r \in RingIds : \E g \in GoalIds :
          /\ ~IsStatic(r) /\ StrictlyInGoal(r, g)
          /\ HandlePairs(GameState, <<Pair(g, r)>>) # GameState

(* ------------------------------------------------------------------ C9 *)

\* The two bodies are one ring and one goal.
RingAndGoal(p) ==
    \/ p.bodyA \in RingIds /\ p.bodyB \in GoalIds
    \/ p.bodyA \in GoalIds /\ p.bodyB \in RingIds

\* C9: a pair that is not one ring plus one goal, and a ring/goal pair whose
\* ring is already static, leaves the game state as it is (static flags,
\* styles, positions, message, control) and does not run the win evaluator.
C9_OtherPairsNoEffect ==
    \A p \in AllPairs :
        (\/ ~RingAndGoal(p)
         \/ \E r \in {p.bodyA, p.bodyB} \cap RingIds : IsStatic(r))
            => HandlePairs(GameState, <<p>>) = GameState

\* Some rings are settled, inside their goal, and others are still moving.
C9_Witness ==
    /\ \E r \in RingIds : \E g \in GoalIds : IsStatic(r) /\ StrictlyInGoal(r, g)
    /\ \E q \in RingIds : ~IsStatic(q)

(* ----------------------------------------------------------------- C10 *)

\* C10: a goal that has already settled rings settles any further non-static
\* ring put against it that it contains.
C10_GoalsNotExclusive ==
    \A r \in RingIds : \A g \in GoalIds :
        (/\ ~IsStatic(r) /\ StrictlyInGoal(r, g)
         /\ \E q \in RingIds : settledBy[q] = g)
            => HandlePairs(GameState, <<Pair(r, g)>>).world[r].isStatic

\* Two rings have been settled by the same goal.
C10_Witness ==
    \E r, q \in RingIds : r # q /\ settledBy[r] # 0 /\ settledBy[r] = settledBy[q]

(* ----------------------------------------------------------------- C11 *)

\* Rings that goal g has settled and that rest inside its span.
SettledIn(g) == { r \in RingIds : settledBy[r] = g /\ IsStatic(r) /\ StrictlyInGoal(r, g) }

\* C11: the Won state is reachable, and in every state with all 5 rings
\* settled at least one of the 3 goals has settled two or more rings.
C11_WonSharesAGoal ==
    AllRingsStatic => \E g \in GoalIds : Cardinality(SettledIn(g)) >= 2

\* The game is Won: all 5 rings are settled, each by one of the 3 goals.
C11_Witness ==
    /\ Won /\ NumSettled = 5
    /\ \A r \in RingIds : settledBy[r] \in GoalIds

(* ----------------------------------------------------------------- C12 *)

\* The force a step adds to ring r.
AddedForce(r) ==
    [x |-> world'[r].force.x - world[r].force.x,
     y |-> world'[r].force.y - world[r].force.y]

\* C12: one force dispatch applies the identical vector (same x, same y) to
\* every ring that is non-static at the call.
C12_SameVectorForAll ==
    [][pendingClicks' = pendingClicks + 1 =>
          \A r, q \in RingIds :
              (~IsStatic(r) /\ ~IsStatic(q)) =>
                  AddedForce(r) = AddedForce(q) /\ AddedForce(r) # NoForce]_vars

\* After a dispatch with a slanted vector, several moving rings carry it.
C12_Witness ==
    \E r, q \in RingIds :
        /\ r # q /\ ~IsStatic(r) /\ ~IsStatic(q)
        /\ world[r].force.x # 0 /\ world[r].force = world[q].force

(* ----------------------------------------------------------------- C13 *)

\* C13: a resize event records the container's width and height in the render
\* options and changes nothing else: every body (position, label, static flag,
\* style, force), the ring and goal lists, gravity, the message and the
\* control stay as they were.
C13_ResizeOnlyRender ==
    [][(render' # render \/ gameArea' # gameArea) =>
          /\ render' = [width |-> gameArea'.clientWidth, height |-> gameArea'.clientHeight]
          /\ world' = world /\ rings' = rings /\ goals' = goals
          /\ gravity' = gravity
          /\ messageContainer' = messageContainer
          /\ startButton' = startButton]_vars

\* The container was resized to 0 x 0 in a game under way: a ring is settled
\* and the goals are where the 600 x 400 layout put them.
C13_Witness ==
    /\ render = [width |-> 0, height |-> 0]
    /\ NumSettled >= 1
    /\ world[GoalId(1)].position = Pos(2 * 300, 2 * 360)

(* ----------------------------------------------------------------- C14 *)

\* C14: in every state the world holds the 12 bodies of startup, the ring list
\* is the 5 bodies created as rings, each labelled 'ring', and the goal list is
\* the 3 bodies created as goals, each labelled 'goal', static and at its
\* creation position (x = 150, 300, 450 and y = 360 for the 600 x 400 container).
C14_RingsAndGoalsFixed ==
    /\ DOMAIN world = 1 .. 12
    /\ rings = <<5, 6, 7, 8, 9>>
    /\ \A k \in 1 .. 5 : world[rings[k]].label = "ring"
    /\ goals = <<10, 11, 12>>
    /\ \A k \in 1 .. 3 :
          /\ world[goals[k]].label = "goal"
          /\ world[goals[k]].isStatic
          /\ world[goals[k]].position = Pos(2 * 150 * k, 2 * 360)

\* A game under way: a ring is settled, another one has been moved by the
\* engine and pushed by a click.
C14_Witness ==
    /\ \E r \in RingIds : IsStatic(r)
    /\ \E q \in RingIds :
          ~IsStatic(q) /\ world[q].force # NoForce /\ world[q].position.y # 2 * 200

(* ----------------------------------------------------------------- C15 *)

\* C15: in the initial state all 5 rings are Moving (non-static), the game is
\* Playing (not Won), the message region is empty and the control enabled.
C15_InitialState ==
    Init =>
        /\ \A k \in 1 .. 5 : ~world[rings[k]].isStatic
        /\ NumSettled = 0
        /\ ~Won
        /\ messageContainer.textContent = ""
        /\ ~startButton.disabled

\* The state right after construction: no ring has moved, none carries a
\* force or the success style.
C15_Witness ==
    /\ \A i \in 0 .. 4 :
          /\ world[RingId(i)].position = Pos(2 * (300 + (i - 2) * 50), 2 * 200)
          /\ world[RingId(i)].force = NoForce
          /\ world[RingId(i)].render # SuccessStyle
    /\ render = [width |-> 600, height |-> 400]

(* ----------------------------------------------------------------- C16 *)

\* C16: with a container of width 0 and height 0 the world is built all the
\* same: 4 static walls, 5 non-static rings at x = (i-2)*50, y = 0, and
\* 3 static goals, all three at the same point with x = 0.
C16_ZeroSizeWorld ==
    /\ InitZero =>
          /\ DOMAIN world = 1 .. 12
          /\ Cardinality({ b \in DOMAIN world : world[b].label \notin {"ring", "goal"} }) = 4
          /\ \A b \in DOMAIN world :
                world[b].label \notin {"ring", "goal"} => world[b].isStatic
          /\ Cardinality({ b \in DOMAIN world : world[b].label = "ring" }) = 5
          /\ Len(rings) = 5
          /\ \A i \in 0 .. 4 :
                /\ world[rings[i + 1]].label = "ring"
                /\ ~world[rings[i + 1]].isStatic
                /\ world[rings[i + 1]].position = Pos(2 * ((i - 2) * 50), 0)
    /\ Cardinality({ b \in DOMAIN world : world[b].label = "goal" }) = 3
    /\ Len(goals) = 3
    /\ \A k \in 1 .. 3 :
          /\ world[goals[k]].label = "goal"
          /\ world[goals[k]].isStatic
          /\ world[goals[k]].position.x = 0
          /\ world[goals[k]].position = world[goals[1]].position

\* The state right after construction in the container of zero size.
C16_Witness ==
    /\ gameArea = [clientWidth |-> 0, clientHeight |-> 0]
    /\ render = [width |-> 0, height |-> 0]
    /\ \A r \in RingIds : ~IsStatic(r) /\ world[r].position.y = 0
    /\ world[GoalId(0)].position = world[GoalId(2)].position

(* ----------------------------------------------------------------- C17 *)

Abs(n) == IF n < 0 THEN -n ELSE n

\* Vector f (millionths) has magnitude 0.05 to within 0.2 %, points upward and
\* lies within 22.5 degrees of straight up (tan 22.5 = 0.4142).
InUpwardArc(f) ==
    /\ f.y < 0
    /\ Abs(f.y) > Abs(f.x)
    /\ 1000 * Abs(f.x) <= 415 * Abs(f.y)
    /\ (Abs(f.x) \div 10) * (Abs(f.x) \div 10) + (Abs(f.y) \div 10) * (Abs(f.y) \div 10)
          >= 4990 * 4990
    /\ (Abs(f.x) \div 10) * (Abs(f.x) \div 10) + (Abs(f.y) \div 10) * (Abs(f.y) \div 10)
          <= 5010 * 5010

\* C17: the vector a force dispatch adds to a ring has magnitude 0.05 and a
\* direction within the 45-degree arc centred on straight up, so that its
\* vertical component is strictly negative and larger in absolute value than
\* its horizontal one.
C17_ForceInArc ==
    [][pendingClicks' = pendingClicks + 1 =>
          \A r \in RingIds : ~IsStatic(r) => InUpwardArc(AddedForce(r))]_vars

\* A dispatch at the left end of the arc (Math.random() = 0) has pushed the
\* rings: the force leans left by about 22.5 degrees.
C17_Witness ==
    \E r \in RingIds :
        /\ ~IsStatic(r) /\ pendingClicks = 1
        /\ world[r].force.x < 0
        /\ 1000 * Abs(world[r].force.x) >= 410 * Abs(world[r].force.y)

(* ----------------------------------------------------------------- C18 *)

\* Rings that are non-static now and static in the handler's result st.
FrozenBy(st) == { r \in RingIds : ~IsStatic(r) /\ st.world[r].isStatic }

\* C18: in a callback with several pairs the win evaluator runs once for each
\* ring frozen, a ring named by more than one pair is frozen and recolored
\* once, and if the callback leaves all rings static the game is Won when it
\* returns.
C18_WinCheckedPerFreeze ==
    \A pairs \in PairLists :
        LET st == HandlePairs(GameState, pairs)
        IN  /\ st.winChecks = Cardinality(FrozenBy(st))
            /\ \A r \in FrozenBy(st) : st.world[r].render = SuccessStyle
            /\ (\A r \in RingIds : st.world[r].isStatic) =>
                   (st.message = SuccessMessage /\ st.disabled)

\* The last two unsettled rings are contained in one goal: the callback that
\* carries both pairs freezes both and returns with the game Won.
C18_Witness ==
    /\ NumSettled = 3 /\ ~Won
    /\ \E pairs \in PairLists :
          LET st == HandlePairs(GameState, pairs)
          IN  /\ Len(pairs) = 2
              /\ Cardinality(FrozenBy(st)) = 2
              /\ st.winChecks = 2
              /\ st.message = SuccessMessage /\ st.disabled

(* ----------------------------------------------------------------- C19 *)

\* C19: a static ring carries the success style (fill '#4CAF50', stroke
\* '#333', line width 1) and a non-static ring its creation style; the three
\* style fields change in the step that sets the static flag and in no other.
C19_StyleIffStatic ==
    \A r \in RingIds :
        IF world[r].isStatic
        THEN world[r].render =
                [fillStyle |-> "#4CAF50", strokeStyle |-> "#333", lineWidth |-> 1]
        ELSE world[r].render =
                [fillStyle |-> "rgba(74, 105, 189, 0.7)", strokeStyle |-> "#4a69bd",
                 lineWidth |-> 3]

\* Settled rings in the success style beside moving rings in the creation style.
C19_Witness ==
    /\ \E r \in RingIds : IsStatic(r) /\ world[r].render.fillStyle = "#4CAF50"
    /\ \E q \in RingIds : ~IsStatic(q) /\ world[q].render.lineWidth = 3

====
